---- MODULE Spec2Model ----
(***************************************************************************)
(* Model of the lajutuju rental-order application.                         *)
(*                                                                         *)
(*  - the two InvoicePrint components' handleDownloadPDF (the PDF export): *)
(*    src/src/types.ts ("types") and src/unnamed/part_001 ("part001");     *)
(*  - the persistence schema with its row-level-security policies,         *)
(*    foreign keys and triggers: src/unnamed/part_000;                     *)
(*  - the dialog state of the App component: src/src/App.tsx.              *)
(*                                                                         *)
(* Lengths of the export (scaled image height, page height, offsets) are   *)
(* the code's floating point values taken as exact rationals: every length *)
(* is kept as an integer numerator over the common denominator             *)
(* canvas.width, so  x mm  is stored as  x * canvas.width.  The canvas      *)
(* width is positive; its height may be zero.                              *)
(***************************************************************************)
EXTENDS Integers, Sequences, FiniteSets, TLC

VARIABLES
    \* ---- export: the environment of one InvoicePrint instance
    impl,            \* which component file is mounted: "types" | "part001"
    order_id,        \* props.order.id, a sequence of characters
    pageSize,        \* what pdf.internal.pageSize reports: [width, height]
    canvasSize,      \* the canvas html2canvas returns: [width, height]
    refCurrent,      \* invoiceRef.current is non-null (the element is mounted)
    style,           \* the invoice element's inline style
    running,         \* the invocation whose synchronous code runs now, 0: none
    \* ---- export: per invocation of handleDownloadPDF
    pc,              \* position in the handler
    outcome,         \* how the invocation ended
    originalStyles,  \* the style snapshot the handler took
    heightLeft,      \* heightLeft (types) / remainingHeight (part001)
    position,        \* position
    calls,           \* the calls made on the jsPDF document, in order
    captures,        \* number of html2canvas requests made
    captureFailed,   \* the html2canvas promise was rejected
    startStyle,      \* the element's style when the invocation started
    \* ---- persistence schema
    users,           \* auth.users: set of user ids
    profiles,        \* set of rows [id, email]
    orders,          \* set of rows [id, user_id, total_amount]
    order_items,     \* set of rows [id, order_id, subtotal]
    actor,           \* who ran the last statement: auth.uid(), or "service"
    returned,        \* the keys of the rows the last statement returned
    \* ---- App component (src/src/App.tsx)
    loading,         \* useAuth().loading
    user,            \* useAuth().user: a user id or NULL
    viewMode,        \* "orders" | "reports"
    showForm,        \* the order form dialog is shown
    showInvoice,     \* the invoice dialog is shown
    editOrder,       \* the order being edited, or NULL
    printOrder,      \* the order being printed, or NULL
    refresh,         \* the reload counter handed to OrderList
    history          \* the last two App handlers that ran, oldest first

exportVars == <<impl, order_id, pageSize, canvasSize, refCurrent, style, running,
                pc, outcome, originalStyles, heightLeft, position, calls,
                captures, captureFailed, startStyle>>
dbVars == <<users, profiles, orders, order_items, actor, returned>>
appVars == <<loading, user, viewMode, showForm, showInvoice, editOrder, printOrder,
             refresh, history>>
vars == <<exportVars, dbVars, appVars>>

----------------------------------------------------------------------------
(* Bounds of the export model *)
MaxCanvasW == 2
MaxCanvasH == 4
MaxPageH == 3

Invocations == {1, 2}
CanvasWidths == 1..MaxCanvasW
CanvasHeights == 0..MaxCanvasH
PageWidths == {2}
PageHeights == 1..MaxPageH

\* order ids: a uuid prefix with lowercase hex digits, an id of exactly eight
\* digits, and an id shorter than eight characters
OrderIds ==
    { <<"3", "f", "a", "0", "b", "1", "c", "2", "-", "9", "e">>,
      <<"1", "2", "3", "4", "5", "6", "7", "8">>,
      <<"a", "7">> }

StyleProps == {"position", "left", "top", "width", "maxWidth", "zIndex", "transform"}

\* inline styles the element may carry before an export starts
InitialStyles ==
    { [p \in StyleProps |-> ""],
      [p \in StyleProps |-> IF p = "width" THEN "50%"
                            ELSE IF p = "maxWidth" THEN "600px" ELSE ""] }

----------------------------------------------------------------------------
(* String helpers *)

toUpperCase(c) ==
    CASE c = "a" -> "A" [] c = "b" -> "B" [] c = "c" -> "C"
      [] c = "d" -> "D" [] c = "e" -> "E" [] c = "f" -> "F"
      [] OTHER -> c

Min(a, b) == IF a < b THEN a ELSE b

\* s.substring(0, n)
substring0(s, n) == SubSeq(s, 1, Min(n, Len(s)))

UpperSeq(s) == [k \in 1..Len(s) |-> toUpperCase(s[k])]

\* types.ts:111  `Invoice-${order.id.substring(0, 8).toUpperCase()}.pdf`
FileNameTypes(id) == <<"Invoice-">> \o UpperSeq(substring0(id, 8)) \o <<".pdf">>

\* part_001:75  `Invoice-${order.id}.pdf`
FileNamePart001(id) == <<"Invoice-">> \o id \o <<".pdf">>

FileName(im, id) == IF im = "types" THEN FileNameTypes(id) ELSE FileNamePart001(id)

----------------------------------------------------------------------------
(* Geometry: numerators over canvas.width *)

\* x mm as a numerator
Mm(x) == x * canvasSize.width

pdfWidth == Mm(pageSize.width)
pdfHeight == Mm(pageSize.height)

\* types.ts:94-96  ratio = canvasWidth / canvasHeight; height = width / ratio
ScaledHeightTypes(cv, pg) == cv.height * pg.width

\* part_001:62  imgHeight = (canvas.height * pdfWidth) / canvas.width
ImgHeightPart001(cv, pg) == cv.height * pg.width

ScaledHeight == IF impl = "types" THEN ScaledHeightTypes(canvasSize, pageSize)
                ELSE ImgHeightPart001(canvasSize, pageSize)

\* types.ts:104  while (heightLeft > 0)
WhileCondTypes_ge(h) == h >= 0
WhileCondTypes(h) == h > 0

\* part_001:67  while (remainingHeight > 0)
WhileCondPart001_ge(h) == h >= 0
WhileCondPart001(h) == h > 0

\* types.ts:105  position = heightLeft - height
NextPositionTypes_fromPage(hl, height, pos) == hl - pos
NextPositionTypes(hl, height, pos) == hl - height

\* part_001:71  position -= pdfHeight
NextPositionPart001_up(pos, ph) == pos + ph
NextPositionPart001(pos, ph) == pos - ph

\* part_001:68  heightToPrint = remainingHeight > pdfHeight ? pdfHeight : remainingHeight
heightToPrint(rem, ph) == IF rem > ph THEN ph ELSE rem

----------------------------------------------------------------------------
(* The jsPDF document: the calls made on it *)

AddImage(y, w, h) == [op |-> "addImage", y |-> y, w |-> w, h |-> h, name |-> <<>>]
AddPage == [op |-> "addPage", y |-> 0, w |-> 0, h |-> 0, name |-> <<>>]
SaveCall(n) == [op |-> "save", y |-> 0, w |-> 0, h |-> 0, name |-> n]

\* the image draws of a call sequence, in order: draw k lands on page k
Draws(cs) == SelectSeq(cs, LAMBDA c : c.op = "addImage")
Saves(cs) == SelectSeq(cs, LAMBDA c : c.op = "save")
PagesAdded(cs) == Len(SelectSeq(cs, LAMBDA c : c.op = "addPage"))

----------------------------------------------------------------------------
(* Style changes *)

\* types.ts:61-67
PrepareStyleTypes(st) ==
    [st EXCEPT !.position = "absolute", !.left = "-9999px", !.top = "0",
               !.width = "794px", !.maxWidth = "none", !.zIndex = "-1",
               !.transform = "scale(1)"]

\* part_001:39-40
PrepareStylePart001(st) == [st EXCEPT !.width = "100%", !.maxWidth = "none"]

\* types.ts:116  Object.assign(invoiceElement.style, originalStyles)
RestoreStyleTypes(st, orig) == [p \in StyleProps |-> orig[p]]

\* part_001:53-54
RestoreStylePart001(st, orig) ==
    [st EXCEPT !.width = orig.width, !.maxWidth = orig.maxWidth]

\* the properties one export changes
ChangedProps(im) == IF im = "types" THEN StyleProps ELSE {"width", "maxWidth"}

----------------------------------------------------------------------------
(* Initial state *)

NoStyle == [p \in StyleProps |-> ""]

InitExportState ==
    /\ refCurrent = TRUE
    /\ running = 0
    /\ pc = [i \in Invocations |-> "idle"]
    /\ outcome = [i \in Invocations |-> "none"]
    /\ originalStyles = [i \in Invocations |-> NoStyle]
    /\ heightLeft = [i \in Invocations |-> 0]
    /\ position = [i \in Invocations |-> 0]
    /\ calls = [i \in Invocations |-> <<>>]
    /\ captures = [i \in Invocations |-> 0]
    /\ captureFailed = [i \in Invocations |-> FALSE]
    /\ startStyle = [i \in Invocations |-> NoStyle]

----------------------------------------------------------------------------
(* handleDownloadPDF, invocation i.  JavaScript runs one handler at a time: *)
(* an invocation's code between two awaits runs with `running = i`, and a   *)
(* new event or a promise continuation starts only when running = 0.        *)

\* what no step of the export changes
envVars == <<impl, order_id, pageSize, canvasSize, dbVars, appVars>>

\* how an invocation ends: pc "done", the thread free
Finish(i, how) ==
    /\ pc' = [pc EXCEPT ![i] = "done"]
    /\ outcome' = [outcome EXCEPT ![i] = how]
    /\ running' = 0

\* the click on "Download PDF": the handler up to its first await
\* types.ts:56-69, part_001:31-50
Click(i) ==
    /\ running = 0
    /\ pc[i] = "idle"
    /\ startStyle' = [startStyle EXCEPT ![i] = style]
    /\ IF ~refCurrent
       THEN \* if (!invoiceRef.current) return
            /\ Finish(i, "returned")
            /\ UNCHANGED <<style, originalStyles, captures>>
       ELSE /\ originalStyles' = [originalStyles EXCEPT ![i] = style]
            /\ running' = 0
            /\ outcome' = outcome
            /\ IF impl = "types"
               THEN /\ style' = PrepareStyleTypes(style)
                    /\ pc' = [pc EXCEPT ![i] = "timer"]
                    /\ captures' = captures
               ELSE /\ style' = PrepareStylePart001(style)
                    /\ pc' = [pc EXCEPT ![i] = "capture"]
                    /\ captures' = [captures EXCEPT ![i] = @ + 1]
    /\ UNCHANGED <<envVars, refCurrent, heightLeft, position, calls, captureFailed>>

\* types.ts:69-80  the 100 ms timer fires; the try block starts by calling html2canvas
TimerFires(i) ==
    /\ running = 0
    /\ impl = "types"
    /\ pc[i] = "timer"
    /\ pc' = [pc EXCEPT ![i] = "capture"]
    /\ captures' = [captures EXCEPT ![i] = @ + 1]
    /\ UNCHANGED <<envVars, refCurrent, style, running, outcome, originalStyles,
                   heightLeft, position, calls, captureFailed, startStyle>>

\* a mutant: the continuation gives the thread up before the document calls
CaptureResolves_yield(i) ==
    /\ running = 0
    /\ pc[i] = "capture"
    /\ heightLeft' = [heightLeft EXCEPT ![i] = ScaledHeight]
    /\ position' = [position EXCEPT ![i] = 0]
    /\ pc' = [pc EXCEPT ![i] = IF impl = "types" THEN "draw0" ELSE "while"]
    /\ UNCHANGED <<envVars, refCurrent, style, running, outcome, originalStyles,
                   calls, captures, captureFailed, startStyle>>

\* html2canvas resolves with the canvas: the code up to the first document call
\* types.ts:82-99, part_001:52-65
CaptureResolves(i) ==
    /\ running = 0
    /\ pc[i] = "capture"
    /\ IF impl = "types"
       THEN /\ heightLeft' = [heightLeft EXCEPT ![i] = ScaledHeight]
            /\ position' = [position EXCEPT ![i] = 0]
            /\ pc' = [pc EXCEPT ![i] = "draw0"]
            /\ running' = i
            /\ UNCHANGED <<style, outcome>>
       ELSE IF ~refCurrent
       THEN \* invoiceRef.current is null: the assignment throws a TypeError
            /\ Finish(i, "rejected")
            /\ UNCHANGED <<style, heightLeft, position>>
       ELSE /\ style' = RestoreStylePart001(style, originalStyles[i])
            /\ heightLeft' = [heightLeft EXCEPT ![i] = ScaledHeight]
            /\ position' = [position EXCEPT ![i] = 0]
            /\ pc' = [pc EXCEPT ![i] = "while"]
            /\ running' = i
            /\ outcome' = outcome
    /\ UNCHANGED <<envVars, refCurrent, originalStyles, calls, captures,
                   captureFailed, startStyle>>

\* what an exception does from the place it is thrown
\* types.ts:112-117 catch (alert) and finally; part_001 has neither
Throw(i) ==
    IF impl = "types"
    THEN /\ style' = RestoreStyleTypes(style, originalStyles[i])
         /\ Finish(i, "failed")
    ELSE /\ style' = style
         /\ Finish(i, "rejected")

\* a mutant: the catch block requests the capture again
CaptureRejects_retry(i) ==
    /\ running = 0
    /\ pc[i] = "capture"
    /\ captures[i] < 2
    /\ captureFailed' = [captureFailed EXCEPT ![i] = TRUE]
    /\ captures' = [captures EXCEPT ![i] = @ + 1]
    /\ UNCHANGED <<envVars, refCurrent, style, running, pc, outcome, originalStyles,
                   heightLeft, position, calls, startStyle>>

\* html2canvas rejects
CaptureRejects(i) ==
    /\ running = 0
    /\ pc[i] = "capture"
    /\ captureFailed' = [captureFailed EXCEPT ![i] = TRUE]
    /\ Throw(i)
    /\ UNCHANGED <<envVars, refCurrent, originalStyles, heightLeft, position,
                   calls, captures, startStyle>>

\* types.ts:101-102  the first draw
DrawFirst(i) ==
    /\ running = i
    /\ impl = "types"
    /\ pc[i] = "draw0"
    /\ calls' = [calls EXCEPT ![i] = Append(@, AddImage(position[i], pdfWidth, ScaledHeight))]
    /\ heightLeft' = [heightLeft EXCEPT ![i] = @ - pdfHeight]
    /\ pc' = [pc EXCEPT ![i] = "while"]
    /\ UNCHANGED <<envVars, refCurrent, style, running, outcome, originalStyles,
                   position, captures, captureFailed, startStyle>>

\* types.ts:104-105  the loop test and the new position
WhileTypes(i) ==
    /\ running = i
    /\ impl = "types"
    /\ pc[i] = "while"
    /\ IF WhileCondTypes(heightLeft[i])
       THEN /\ position' = [position EXCEPT ![i] =
                               NextPositionTypes(heightLeft[i], ScaledHeight, @)]
            /\ pc' = [pc EXCEPT ![i] = "addPage"]
       ELSE /\ position' = position
            /\ pc' = [pc EXCEPT ![i] = "save"]
    /\ UNCHANGED <<envVars, refCurrent, style, running, outcome, originalStyles,
                   heightLeft, calls, captures, captureFailed, startStyle>>

\* types.ts:106, part_001:72  pdf.addPage()
AddPageStep(i) ==
    /\ running = i
    /\ pc[i] = "addPage"
    /\ calls' = [calls EXCEPT ![i] = Append(@, AddPage)]
    /\ pc' = [pc EXCEPT ![i] = IF impl = "types" THEN "draw" ELSE "while"]
    /\ UNCHANGED <<envVars, refCurrent, style, running, outcome, originalStyles,
                   heightLeft, position, captures, captureFailed, startStyle>>

\* types.ts:107-108  the draw of a later page
DrawTypes(i) ==
    /\ running = i
    /\ impl = "types"
    /\ pc[i] = "draw"
    /\ calls' = [calls EXCEPT ![i] = Append(@, AddImage(position[i], pdfWidth, ScaledHeight))]
    /\ heightLeft' = [heightLeft EXCEPT ![i] = @ - pdfHeight]
    /\ pc' = [pc EXCEPT ![i] = "while"]
    /\ UNCHANGED <<envVars, refCurrent, style, running, outcome, originalStyles,
                   position, captures, captureFailed, startStyle>>

\* part_001:67  the loop test
WhilePart001(i) ==
    /\ running = i
    /\ impl = "part001"
    /\ pc[i] = "while"
    /\ pc' = [pc EXCEPT ![i] = IF WhileCondPart001(heightLeft[i]) THEN "draw" ELSE "save"]
    /\ UNCHANGED <<envVars, refCurrent, style, running, outcome, originalStyles,
                   heightLeft, position, calls, captures, captureFailed, startStyle>>

\* part_001:68-72  one draw, the two decrements, and whether a page follows
DrawPart001(i) ==
    /\ running = i
    /\ impl = "part001"
    /\ pc[i] = "draw"
    /\ calls' = [calls EXCEPT ![i] =
                    Append(@, AddImage(position[i], pdfWidth,
                                       heightToPrint(heightLeft[i], pdfHeight)))]
    /\ heightLeft' = [heightLeft EXCEPT ![i] = @ - pdfHeight]
    /\ position' = [position EXCEPT ![i] = NextPositionPart001(@, pdfHeight)]
    /\ pc' = [pc EXCEPT ![i] = IF heightLeft[i] - pdfHeight > 0 THEN "addPage" ELSE "while"]
    /\ UNCHANGED <<envVars, refCurrent, style, running, outcome, originalStyles,
                   captures, captureFailed, startStyle>>

\* types.ts:111 and 116, part_001:75  pdf.save(...), then the end of the handler
Save(i) ==
    /\ running = i
    /\ pc[i] = "save"
    /\ calls' = [calls EXCEPT ![i] = Append(@, SaveCall(FileName(impl, order_id)))]
    /\ style' = IF impl = "types" THEN RestoreStyleTypes(style, originalStyles[i])
                ELSE style
    /\ Finish(i, "saved")
    /\ UNCHANGED <<envVars, refCurrent, originalStyles, heightLeft, position,
                   captures, captureFailed, startStyle>>

\* the document writer throws from addImage, addPage or save
WriterThrows(i) ==
    /\ running = i
    /\ pc[i] \in {"draw0", "draw", "addPage", "save"}
    /\ Throw(i)
    /\ UNCHANGED <<envVars, refCurrent, originalStyles, heightLeft, position,
                   calls, captures, captureFailed, startStyle>>

\* onClose (the Tutup button, the Escape key): App unmounts InvoicePrint and
\* React clears the ref.  types.ts:40-46, 140; part_001:15-21, 98
Close ==
    /\ running = 0
    /\ refCurrent
    /\ refCurrent' = FALSE
    /\ UNCHANGED <<envVars, style, running, pc, outcome, originalStyles, heightLeft,
                   position, calls, captures, captureFailed, startStyle>>

ExportStep(i) ==
    \/ Click(i)
    \/ TimerFires(i)
    \/ CaptureResolves(i)
    \/ CaptureRejects(i)
    \/ DrawFirst(i)
    \/ WhileTypes(i)
    \/ AddPageStep(i)
    \/ DrawTypes(i)
    \/ WhilePart001(i)
    \/ DrawPart001(i)
    \/ Save(i)
    \/ WriterThrows(i)

----------------------------------------------------------------------------
(* Persistence schema (src/unnamed/part_000): tables, constraints, policies *)

MaxAmount == 1

Users == {"u1", "u2"}
Emails == {"a@x", "b@x"}
NULL == "NULL"
OrderKeys == {"o1", "o2"}
ItemKeys == {"i1", "i2"}
Amounts == 0..MaxAmount

ProfileRows == [id : Users, email : Emails \cup {NULL}]
OrderRows == [id : OrderKeys, user_id : Users, total_amount : Amounts]
ItemRows == [id : ItemKeys, order_id : OrderKeys, subtotal : Amounts]

\* total_amount numeric(12, 2) DEFAULT 0
DefaultTotalAmount == 0

\* ---- row-level-security policies: uid is auth.uid()

\* "Users can view own profile"
ProfilesSelectUsing(uid, row) == uid = row.id
\* "Users can update own profile"
ProfilesUpdateUsing(uid, row) == uid = row.id
ProfilesUpdateCheck(uid, row) == uid = row.id
\* RLS is enabled on profiles and no INSERT or DELETE policy exists
ProfilesInsertCheck(uid, row) == FALSE
ProfilesDeleteUsing(uid, row) == FALSE

\* "Users can view own orders"
OrdersSelectUsing(uid, row) == uid = row.user_id
\* "Users can create own orders"
OrdersInsertCheck(uid, row) == uid = row.user_id
\* "Users can update own orders"
OrdersUpdateUsing(uid, row) == uid = row.user_id
OrdersUpdateCheck_none(uid, row) == TRUE
OrdersUpdateCheck(uid, row) == uid = row.user_id
\* "Users can delete own orders"
OrdersDeleteUsing(uid, row) == uid = row.user_id

\* EXISTS (SELECT 1 FROM orders WHERE orders.id = order_items.order_id
\*         AND orders.user_id = auth.uid()), over the orders table `os`
OwnsOrder(uid, row, os) == \E o \in os : o.id = row.order_id /\ o.user_id = uid

\* "Users can view / create / update / delete own order items"
ItemsSelectUsing(uid, row, os) == OwnsOrder(uid, row, os)
ItemsInsertCheck(uid, row, os) == OwnsOrder(uid, row, os)
ItemsUpdateUsing(uid, row, os) == OwnsOrder(uid, row, os)
ItemsUpdateCheck(uid, row, os) == OwnsOrder(uid, row, os)
ItemsDeleteUsing(uid, row, os) == OwnsOrder(uid, row, os)

\* ---- constraints

Ids(rows) == {r.id : r \in rows}

\* profiles.id REFERENCES auth.users(id), orders.user_id REFERENCES auth.users(id)
UserExists(u) == u \in users
\* order_items.order_id REFERENCES orders(id)
OrderExists(k, os) == k \in Ids(os)

\* ON DELETE CASCADE of order_items.order_id: the items left once the orders
\* `os` remain
CascadeItems_none(items, os) == items
CascadeItems(items, os) == {it \in items : OrderExists(it.order_id, os)}

\* ON DELETE CASCADE of orders.user_id and profiles.id: the rows left once the
\* users `us` remain
CascadeOrders(os, us) == {o \in os : o.user_id \in us}
CascadeProfiles(ps, us) == {p \in ps : p.id \in us}

\* a statement run as u that returns the rows with keys rs
Statement(u, rs) == actor' = u /\ returned' = rs

InitDb ==
    /\ users = {}
    /\ profiles = {}
    /\ orders = {}
    /\ order_items = {}
    /\ actor = "service"
    /\ returned = {}

\* ---- auth.users, by the auth service

\* handle_new_user(): the profile row the trigger inserts, as SECURITY DEFINER
handle_new_user_nothing(ps, u, email) == ps
handle_new_user(ps, u, email) == ps \cup {[id |-> u, email |-> email]}

\* INSERT INTO auth.users fires on_auth_user_created; a failing trigger
\* (email NULL, email or id already in profiles) aborts the whole insert
SignUp(u, email) ==
    LET ok == /\ u \notin users
              /\ email # NULL
              /\ email \notin {p.email : p \in profiles}
              /\ u \notin Ids(profiles)
    IN  /\ users' = IF ok THEN users \cup {u} ELSE users
        /\ profiles' = IF ok THEN handle_new_user(profiles, u, email) ELSE profiles
        /\ Statement("service", {})
        /\ UNCHANGED <<orders, order_items, exportVars, appVars>>

\* DELETE FROM auth.users ... RETURNING id, with the cascades of lines 51, 61
\* and 77
DeleteUser(u) ==
    LET ok == u \in users
        us == users \ {u}
    IN  /\ users' = us
        /\ profiles' = CascadeProfiles(profiles, us)
        /\ orders' = CascadeOrders(orders, us)
        /\ order_items' = CascadeItems(order_items, CascadeOrders(orders, us))
        /\ Statement("service", IF ok THEN {u} ELSE {})
        /\ UNCHANGED <<exportVars, appVars>>

\* ---- profiles, by an authenticated user u

SelectProfiles(u) ==
    /\ Statement(u, {p.id : p \in {q \in profiles : ProfilesSelectUsing(u, q)}})
    /\ UNCHANGED <<users, profiles, orders, order_items, exportVars, appVars>>

InsertProfile(u, row) ==
    LET ok == /\ ProfilesInsertCheck(u, row)
              /\ row.id \notin Ids(profiles)
              /\ UserExists(row.id)
              /\ row.email # NULL
              /\ row.email \notin {p.email : p \in profiles}
    IN  /\ profiles' = IF ok THEN profiles \cup {row} ELSE profiles
        /\ Statement(u, {})
        /\ UNCHANGED <<users, orders, order_items, exportVars, appVars>>

UpdateProfile(u, k, new) ==
    LET old == {p \in profiles : p.id = k /\ ProfilesUpdateUsing(u, p)}
        rest == profiles \ old
        ok == /\ old # {}
              /\ ProfilesUpdateCheck(u, new)
              /\ new.id \notin Ids(rest)
              /\ UserExists(new.id)
              /\ new.email # NULL
              /\ new.email \notin {p.email : p \in rest}
    IN  /\ profiles' = IF ok THEN rest \cup {new} ELSE profiles
        /\ Statement(u, {})
        /\ UNCHANGED <<users, orders, order_items, exportVars, appVars>>

DeleteProfile(u, k) ==
    LET old == {p \in profiles : p.id = k /\ ProfilesDeleteUsing(u, p)}
    IN  /\ profiles' = profiles \ old
        /\ Statement(u, {})
        /\ UNCHANGED <<users, orders, order_items, exportVars, appVars>>

\* ---- orders, by an authenticated user u

SelectOrders(u) ==
    /\ Statement(u, {o.id : o \in {q \in orders : OrdersSelectUsing(u, q)}})
    /\ UNCHANGED <<users, profiles, orders, order_items, exportVars, appVars>>

InsertOrder(u, row) ==
    LET ok == /\ OrdersInsertCheck(u, row)
              /\ row.id \notin Ids(orders)
              /\ UserExists(row.user_id)
    IN  /\ orders' = IF ok THEN orders \cup {row} ELSE orders
        /\ Statement(u, {})
        /\ UNCHANGED <<users, profiles, order_items, exportVars, appVars>>

\* order_items.order_id has no ON UPDATE action: an order's id cannot change
\* while items reference it
UpdateOrder(u, k, new) ==
    LET old == {o \in orders : o.id = k /\ OrdersUpdateUsing(u, o)}
        rest == orders \ old
        ok == /\ old # {}
              /\ OrdersUpdateCheck(u, new)
              /\ new.id \notin Ids(rest)
              /\ UserExists(new.user_id)
              /\ new.id # k => \A it \in order_items : it.order_id # k
    IN  /\ orders' = IF ok THEN rest \cup {new} ELSE orders
        /\ Statement(u, {})
        /\ UNCHANGED <<users, profiles, order_items, exportVars, appVars>>

DeleteOrder(u, k) ==
    LET old == {o \in orders : o.id = k /\ OrdersDeleteUsing(u, o)}
    IN  /\ orders' = orders \ old
        /\ order_items' = CascadeItems(order_items, orders \ old)
        /\ Statement(u, {})
        /\ UNCHANGED <<users, profiles, exportVars, appVars>>

\* ---- order_items, by an authenticated user u

SelectItems(u) ==
    /\ Statement(u, {it.id : it \in {q \in order_items : ItemsSelectUsing(u, q, orders)}})
    /\ UNCHANGED <<users, profiles, orders, order_items, exportVars, appVars>>

InsertItem(u, row) ==
    LET ok == /\ ItemsInsertCheck(u, row, orders)
              /\ row.id \notin Ids(order_items)
              /\ OrderExists(row.order_id, orders)
    IN  /\ order_items' = IF ok THEN order_items \cup {row} ELSE order_items
        /\ Statement(u, {})
        /\ UNCHANGED <<users, profiles, orders, exportVars, appVars>>

UpdateItem(u, k, order_id_, subtotal_) ==
    LET new == [id |-> k, order_id |-> order_id_, subtotal |-> subtotal_]
        old == {it \in order_items : it.id = k /\ ItemsUpdateUsing(u, it, orders)}
        rest == order_items \ old
        ok == /\ old # {}
              /\ ItemsUpdateCheck(u, new, orders)
              /\ new.id \notin Ids(rest)
              /\ OrderExists(new.order_id, orders)
    IN  /\ order_items' = IF ok THEN rest \cup {new} ELSE order_items
        /\ Statement(u, {})
        /\ UNCHANGED <<users, profiles, orders, exportVars, appVars>>

DeleteItem(u, k) ==
    LET old == {it \in order_items : it.id = k /\ ItemsDeleteUsing(u, it, orders)}
    IN  /\ order_items' = order_items \ old
        /\ Statement(u, {})
        /\ UNCHANGED <<users, profiles, orders, exportVars, appVars>>

NextDb ==
    \/ \E u \in Users, e \in Emails \cup {NULL} : SignUp(u, e)
    \/ \E u \in Users : DeleteUser(u)
    \/ \E u \in Users : SelectProfiles(u)
    \/ \E u \in Users, row \in ProfileRows : InsertProfile(u, row)
    \/ \E u \in Users, k \in Users, new \in ProfileRows : UpdateProfile(u, k, new)
    \/ \E u \in Users, k \in Users : DeleteProfile(u, k)
    \/ \E u \in Users : SelectOrders(u)
    \/ \E u \in Users, row \in OrderRows : InsertOrder(u, row)
    \/ \E u \in Users, k \in OrderKeys, new \in OrderRows : UpdateOrder(u, k, new)
    \/ \E u \in Users, k \in OrderKeys : DeleteOrder(u, k)
    \/ \E u \in Users : SelectItems(u)
    \/ \E u \in Users, row \in ItemRows : InsertItem(u, row)
    \/ \E u \in Users, k \in ItemKeys, o \in OrderKeys, a \in Amounts :
          UpdateItem(u, k, o, a)
    \/ \E u \in Users, k \in ItemKeys : DeleteItem(u, k)

----------------------------------------------------------------------------
(* The App component: which dialogs are shown (src/src/App.tsx)            *)
(* React applies the state updates of one event handler together, so each  *)
(* handler is one step.                                                    *)

MaxRefresh == 2

\* the orders OrderList shows
AppOrders == OrderKeys
AppUsers == {"u1"}
ViewModes == {"orders", "reports"}

\* App.tsx:17-22  the useState initial values; useAuth starts loading
InitApp ==
    /\ loading = TRUE
    /\ user = NULL
    /\ viewMode = "orders"
    /\ showForm = FALSE
    /\ showInvoice = FALSE
    /\ editOrder = NULL
    /\ printOrder = NULL
    /\ refresh = 0
    /\ history = <<>>

\* the handler h has run
Ran(h) == history' = IF history = <<>> THEN <<h>> ELSE <<history[Len(history)], h>>

\* App.tsx:42-55  the main screen is rendered only when a user is signed in
Rendered == ~loading /\ user # NULL

\* useAuth: the session check ends, with or without a user
AuthLoaded(u) ==
    /\ loading
    /\ loading' = FALSE
    /\ user' = u
    /\ UNCHANGED <<viewMode, showForm, showInvoice, editOrder, printOrder, refresh,
                   history, exportVars, dbVars>>

\* App.tsx:53-55  the Auth screen signs a user in
SignIn(u) ==
    /\ ~loading
    /\ user = NULL
    /\ user' = u
    /\ UNCHANGED <<loading, viewMode, showForm, showInvoice, editOrder, printOrder,
                   refresh, history, exportVars, dbVars>>

\* App.tsx:89-96  the sign-out button
signOut ==
    /\ Rendered
    /\ user' = NULL
    /\ Ran("signOut")
    /\ UNCHANGED <<loading, viewMode, showForm, showInvoice, editOrder, printOrder,
                   refresh, exportVars, dbVars>>

\* App.tsx:101-102, 113-114  the two tabs
setViewMode(m) ==
    /\ Rendered
    /\ viewMode' = m
    /\ Ran("setViewMode")
    /\ UNCHANGED <<loading, user, showForm, showInvoice, editOrder, printOrder,
                   refresh, exportVars, dbVars>>

\* App.tsx:24  handleSuccess, passed to OrderForm as onSuccess
handleSuccess ==
    /\ Rendered
    /\ showForm
    /\ refresh < MaxRefresh
    /\ refresh' = refresh + 1
    /\ Ran("handleSuccess")
    /\ UNCHANGED <<loading, user, viewMode, showForm, showInvoice, editOrder,
                   printOrder, exportVars, dbVars>>

\* App.tsx:25-28  handleEdit, passed to OrderList as onEdit
handleEdit(order) ==
    /\ Rendered
    /\ viewMode = "orders"
    /\ editOrder' = order
    /\ showForm' = TRUE
    /\ Ran("handleEdit")
    /\ UNCHANGED <<loading, user, viewMode, showInvoice, printOrder, refresh,
                   exportVars, dbVars>>

\* App.tsx:29-32  handlePrint, passed to OrderList as onPrint
handlePrint(order) ==
    /\ Rendered
    /\ viewMode = "orders"
    /\ printOrder' = order
    /\ showInvoice' = TRUE
    /\ Ran("handlePrint")
    /\ UNCHANGED <<loading, user, viewMode, showForm, editOrder, refresh,
                   exportVars, dbVars>>

\* App.tsx:33-36  handleCloseForm, passed to OrderForm as onClose
handleCloseForm ==
    /\ Rendered
    /\ showForm
    /\ showForm' = FALSE
    /\ editOrder' = NULL
    /\ Ran("handleCloseForm")
    /\ UNCHANGED <<loading, user, viewMode, showInvoice, printOrder, refresh,
                   exportVars, dbVars>>

\* a mutant: only the dialog flag is reset
handleCloseInvoice_flagOnly ==
    /\ Rendered
    /\ showInvoice /\ printOrder # NULL
    /\ showInvoice' = FALSE
    /\ Ran("handleCloseInvoice")
    /\ UNCHANGED <<loading, user, viewMode, showForm, editOrder, printOrder, refresh,
                   exportVars, dbVars>>

\* App.tsx:37-40  handleCloseInvoice, passed to InvoicePrint as onClose
handleCloseInvoice ==
    /\ Rendered
    /\ showInvoice /\ printOrder # NULL
    /\ showInvoice' = FALSE
    /\ printOrder' = NULL
    /\ Ran("handleCloseInvoice")
    /\ UNCHANGED <<loading, user, viewMode, showForm, editOrder, refresh,
                   exportVars, dbVars>>

\* a mutant: the click only shows the form
TambahOrder_showOnly ==
    /\ Rendered
    /\ viewMode = "orders"
    /\ showForm' = TRUE
    /\ Ran("TambahOrder")
    /\ UNCHANGED <<loading, user, viewMode, showInvoice, editOrder, printOrder,
                   refresh, exportVars, dbVars>>

\* App.tsx:77-88  the click on "Tambah Order", shown on the orders tab
TambahOrder ==
    /\ Rendered
    /\ viewMode = "orders"
    /\ editOrder' = NULL
    /\ showForm' = TRUE
    /\ Ran("TambahOrder")
    /\ UNCHANGED <<loading, user, viewMode, showInvoice, printOrder, refresh,
                   exportVars, dbVars>>

NextApp ==
    \/ \E u \in AppUsers \cup {NULL} : AuthLoaded(u)
    \/ \E u \in AppUsers : SignIn(u)
    \/ signOut
    \/ \E m \in ViewModes : setViewMode(m)
    \/ handleSuccess
    \/ \E order \in AppOrders : handleEdit(order)
    \/ \E order \in AppOrders : handlePrint(order)
    \/ handleCloseForm
    \/ handleCloseInvoice
    \/ TambahOrder

----------------------------------------------------------------------------
(* Specifications *)

\* the database after the migration, the App just mounted, the InvoicePrint idle
InitIdle ==
    /\ InitDb
    /\ InitApp
    /\ impl = "types"
    /\ order_id = <<"a", "7">>
    /\ pageSize = [width |-> 2, height |-> 3]
    /\ canvasSize = [width |-> 1, height |-> 1]
    /\ style = NoStyle
    /\ InitExportState

SpecDb == InitIdle /\ [][NextDb]_vars

\* the App component alone
SpecApp == InitIdle /\ [][NextApp]_vars

----------------------------------------------------------------------------
(* The export of one invoice: one invocation of handleDownloadPDF *)

\* an InvoicePrint instance of either component, for any order, page size,
\* canvas and inline style; the database plays no part
InitExport ==
    /\ impl \in {"types", "part001"}
    /\ order_id \in OrderIds
    /\ pageSize \in [width : PageWidths, height : PageHeights]
    /\ canvasSize \in [width : CanvasWidths, height : CanvasHeights]
    /\ style \in InitialStyles
    /\ InitExportState
    /\ InitDb
    /\ InitApp

NextExport ==
    \/ \E i \in {1} : ExportStep(i)
    \/ Close

SpecExport == InitExport /\ [][NextExport]_vars

\* the synchronous code of an invocation after the capture: the document calls
\* and the loop, none of which waits for anything (types.ts:82-111,
\* part_001:56-75)
SyncStep(i) ==
    \/ DrawFirst(i)
    \/ WhileTypes(i)
    \/ AddPageStep(i)
    \/ DrawTypes(i)
    \/ WhilePart001(i)
    \/ DrawPart001(i)
    \/ Save(i)

\* JavaScript runs a handler's synchronous code to completion: once started,
\* the code between the capture result and the end of the handler keeps running
SpecExportFair == SpecExport /\ \A i \in {1} : WF_vars(SyncStep(i))

----------------------------------------------------------------------------
(* Claims about the export *)

CeilDiv(a, b) == (a + b - 1) \div b

\* the scaled image height H and the page height P, as numerators
H == canvasSize.height * pageSize.width
P == pageSize.height * canvasSize.width

Saved(i) == pc[i] = "done" /\ outcome[i] = "saved"

\* C1: an export that reaches save has issued exactly ceil(H / P) image draws
\* when H > P and exactly one draw when 0 < H <= P, in both implementations.
C1_DrawCount ==
    \A i \in Invocations :
        (Saved(i) /\ H > 0) =>
            Len(Draws(calls[i])) = IF H > P THEN CeilDiv(H, P) ELSE 1

\* C1 witness: a saved export of more than two pages whose height is no
\* multiple of the page height
C1_Witness ==
    \E i \in Invocations :
        Saved(i) /\ H > 2 * P /\ H % P # 0 /\ Len(Draws(calls[i])) = CeilDiv(H, P)

\* Row y of the scaled image (0 <= y < H), drawn by d = addImage(.., d.y, .., d.h):
\* addImage stretches the image to height d.h, so the row lands at page
\* coordinate d.y + y * d.h / H.  It is visible when that lies in [0, P), and in
\* place on page k (k = 0, 1, ...) when that equals y - k * P.
Visible(d, y) == 0 <= d.y * H + y * d.h /\ d.y * H + y * d.h < P * H
InPlace(d, k, y) == d.y * H + y * d.h = (y - k * P) * H

\* C2: the pages of a saved export reproduce the scaled image with no gaps and
\* no overlaps: every row y in [0, H) is visible on exactly one page, and there at
\* the place of the scaled image's slice for that page, so the pages show
\* increasing y in page order.
C2_NoGapsNoOverlaps ==
    \A i \in Invocations :
        Saved(i) =>
            LET ds == Draws(calls[i]) IN
            \A y \in 0..(H - 1) :
                /\ Cardinality({k \in 1..Len(ds) : Visible(ds[k], y)}) = 1
                /\ \A k \in 1..Len(ds) : Visible(ds[k], y) => InPlace(ds[k], k - 1, y)

\* the name the filename convention gives an order id
InvoiceName(id) ==
    <<"Invoice-">> \o [k \in 1..Min(8, Len(id)) |-> toUpperCase(id[k])] \o <<".pdf">>

\* C3: every save of a successful export names the file 'Invoice-' + the first 8
\* characters of the order id in uppercase + '.pdf'.
C3_FileName ==
    \A i \in Invocations :
        Saved(i) =>
            /\ Len(Saves(calls[i])) = 1
            /\ Saves(calls[i])[1].name = InvoiceName(order_id)

\* C4: when an invocation ends, by any path, every style property the export
\* changes has the value it had when the invocation started.
C4_StyleRestored ==
    [][\A i \in Invocations :
          (pc[i] # "done" /\ pc'[i] = "done") =>
              \A p \in ChangedProps(impl) : style'[p] = startStyle'[i][p]]_vars

\* an invocation that got past the guard on invoiceRef.current
Started(i) == pc[i] \notin {"idle", "timer"} /\ outcome[i] # "returned"

\* C5: an invocation requests the capture exactly once; after a failed capture
\* it has ended as a failure, with the capture not requested again and no call
\* made on the document (no draw, no page, no save).
C5_CaptureOnce ==
    \A i \in Invocations :
        /\ captures[i] <= 1
        /\ Started(i) => captures[i] = 1
        /\ captureFailed[i] =>
              /\ pc[i] = "done"
              /\ outcome[i] \in {"failed", "rejected"}
              /\ captures[i] = 1
              /\ calls[i] = <<>>

\* C5 witness: a capture failed and the invocation is over
C5_Witness ==
    \E i \in Invocations :
        captureFailed[i] /\ pc[i] = "done" /\ captures[i] = 1 /\ calls[i] = <<>>

\* an invocation whose capture returned a canvas
GotCanvas(i) == Started(i) /\ pc[i] # "capture" /\ ~captureFailed[i]

\* C6: when the capture returns a canvas of width or height zero, the export
\* ends as a failure and save is never called.
C6_ZeroCanvasAborts ==
    \A i \in Invocations :
        (GotCanvas(i) /\ (canvasSize.width = 0 \/ canvasSize.height = 0)) =>
            /\ Saves(calls[i]) = <<>>
            /\ pc[i] = "done" => outcome[i] \in {"failed", "rejected"}

----------------------------------------------------------------------------
(* Claims about the persistence schema *)

RECURSIVE SumSubtotals(_)
SumSubtotals(items) ==
    IF items = {} THEN 0
    ELSE LET it == CHOOSE x \in items : TRUE
         IN  it.subtotal + SumSubtotals(items \ {it})

ItemsOf(k) == {it \in order_items : it.order_id = k}

\* C7: every stored order's total_amount is the sum of the stored subtotals of
\* its items, 0 for an order without items.
C7_TotalIsSum ==
    \A o \in orders : o.total_amount = SumSubtotals(ItemsOf(o.id))

\* the owners of the order an item row belongs to, in the orders table os
ParentOwners(it, os) == {o.user_id : o \in {x \in os : x.id = it.order_id}}

\* C8: a statement of an authenticated user adds, changes, removes and returns
\* only orders whose user_id (before and after) is that user, and only items
\* whose parent order (before and after) belongs to that user.
C8_OwnRowsOnly ==
    [][actor' \in Users =>
          /\ \A o \in (orders \ orders') \cup (orders' \ orders) : o.user_id = actor'
          /\ \A it \in order_items \ order_items' : ParentOwners(it, orders) = {actor'}
          /\ \A it \in order_items' \ order_items : ParentOwners(it, orders') = {actor'}
          /\ \A o \in orders : o.id \in returned' => o.user_id = actor'
          /\ \A it \in order_items :
                it.id \in returned' => ParentOwners(it, orders) = {actor'}]_vars

\* C8 witness: a user's statement returned rows while the other user holds an
\* order with items
C8_Witness ==
    /\ actor \in Users
    /\ returned # {}
    /\ \E o \in orders : o.user_id # actor /\ ItemsOf(o.id) # {}
    /\ \E o \in orders : o.user_id = actor /\ ItemsOf(o.id) # {}

\* C9: every order item references an existing order and every order an
\* existing user, whatever was deleted before.
C9_ReferencesExist ==
    /\ \A it \in order_items : \E o \in orders : o.id = it.order_id
    /\ \A o \in orders : o.user_id \in users

\* C9 witness: the last statement deleted a user, and another user's order
\* with an item is still there
C9_Witness ==
    /\ actor = "service"
    /\ returned # {}
    /\ returned \cap users = {}
    /\ \E o \in orders : ItemsOf(o.id) # {}

\* C10: every auth user has exactly one profile row, with the user's id, and
\* every profile row belongs to an existing user.
C10_OneProfilePerUser ==
    /\ \A u \in users : Cardinality({p \in profiles : p.id = u}) = 1
    /\ \A p \in profiles : p.id \in users

\* C10 witness: both users signed up and a user ran the last statement
C10_Witness ==
    /\ users = Users
    /\ actor \in Users
    /\ Cardinality(profiles) = 2

----------------------------------------------------------------------------
(* Claims about the export, continued *)

\* the vertical offsets of the draws of invocation i, in page order
Offsets(i) == [k \in 1..Len(Draws(calls[i])) |-> Draws(calls[i])[k].y]

\* C11: in both implementations the k-th draw (k = 0, 1, ...) has vertical
\* offset exactly -k * P: 0 on the first page, strictly decreasing after it.
C11_OffsetIsMinusKP ==
    \A i \in Invocations :
        \A k \in 1..Len(Offsets(i)) : Offsets(i)[k] = -((k - 1) * P)

\* C11 witness: types.ts saved three or more pages of an image whose height is
\* no multiple of the page height, the last offset being negative
C11_Witness ==
    \E i \in Invocations :
        /\ Saved(i)
        /\ impl = "types"
        /\ H % P # 0
        /\ Len(Offsets(i)) >= 3
        /\ Offsets(i)[Len(Offsets(i))] = -((Len(Offsets(i)) - 1) * P)

\* C12: every draw passes the page width as the draw width and the full scaled
\* height H as the draw height, on every page.
C12_FullImageOnEveryPage ==
    \A i \in Invocations :
        \A k \in 1..Len(Draws(calls[i])) :
            /\ Draws(calls[i])[k].w = pageSize.width * canvasSize.width
            /\ Draws(calls[i])[k].h = H

\* the operations of a call sequence
Ops(cs) == [k \in 1..Len(cs) |-> cs[k].op]

\* draw, then (addPage, draw) repeated, then save: call 1 is a draw, the last
\* call is the only save, and in between draws (odd places) and added pages
\* (even places) alternate, ending with a draw
DrawPagesSave(ops) ==
    /\ Len(ops) >= 2
    /\ Len(ops) % 2 = 0
    /\ ops[Len(ops)] = "save"
    /\ \A k \in 1..(Len(ops) - 1) :
           ops[k] = IF k % 2 = 1 THEN "addImage" ELSE "addPage"

\* C13: the document calls of a successful export are draw, (addPage, draw)*,
\* save: no page is added before the first draw, every added page gets its draw,
\* and no page without a draw precedes save.
C13_CallOrder ==
    \A i \in Invocations : Saved(i) => DrawPagesSave(Ops(calls[i]))

\* the draws made by the pagination loop itself: in types.ts the first draw
\* precedes the loop
LoopDraws(i) ==
    IF impl = "types"
    THEN IF Len(Draws(calls[i])) = 0 THEN 0 ELSE Len(Draws(calls[i])) - 1
    ELSE Len(Draws(calls[i]))

InLoop(i) == pc[i] \in {"while", "addPage", "draw", "save"}

\* C14: the pagination loop terminates after at most ceil(H / P) draws: the
\* remaining height is H less P for every draw made, the loop body runs only
\* while it is > 0, the loop is left only when it is <= 0, and the code that
\* has the canvas always reaches the end of the handler.
C14_LoopTerminates ==
    /\ [](\A i \in Invocations :
            /\ LoopDraws(i) <= CeilDiv(H, P)
            /\ InLoop(i) => heightLeft[i] = H - Len(Draws(calls[i])) * P
            /\ pc[i] \in {"addPage", "draw"} => heightLeft[i] > 0
            /\ pc[i] = "save" => heightLeft[i] <= 0)
    /\ \A i \in Invocations : (running = i) ~> (pc[i] = "done")

\* C14 witness: a loop that ran three times has ended and the export is saved
C14_Witness ==
    \E i \in Invocations :
        /\ Saved(i)
        /\ LoopDraws(i) >= 3
        /\ LoopDraws(i) <= CeilDiv(H, P)
        /\ heightLeft[i] <= 0

\* types.ts:104-109  the positions the loop computes from heightLeft, one per pass
RECURSIVE LoopPositionsTypes(_, _, _, _)
LoopPositionsTypes(hl, height, ph, pos) ==
    IF WhileCondTypes(hl)
    THEN <<NextPositionTypes(hl, height, pos)>>
         \o LoopPositionsTypes(hl - ph, height, ph, NextPositionTypes(hl, height, pos))
    ELSE <<>>

\* types.ts:98-109  position 0 for the first draw, then the loop's positions
PositionsTypes(height, ph) == <<0>> \o LoopPositionsTypes(height - ph, height, ph, 0)

\* part_001:64-73  the position of each pass, decremented after the draw
RECURSIVE LoopPositionsPart001(_, _, _)
LoopPositionsPart001(rem, ph, pos) ==
    IF WhileCondPart001(rem)
    THEN <<pos>> \o LoopPositionsPart001(rem - ph, ph, NextPositionPart001(pos, ph))
    ELSE <<>>

PositionsPart001(imgHeight, ph) == LoopPositionsPart001(imgHeight, ph, 0)

\* the offsets the formula of the other implementation gives for this export
OtherPositions ==
    IF impl = "types"
    THEN PositionsPart001(ImgHeightPart001(canvasSize, pageSize), pdfHeight)
    ELSE PositionsTypes(ScaledHeightTypes(canvasSize, pageSize), pdfHeight)

\* C15: for every scaled height H > 0, a multiple of P or not, the offsets a
\* saved export drew at are the offsets both position formulas compute: the
\* formula of types.ts and the formula of part_001 give the same sequence.
C15_SameOffsets ==
    \A i \in Invocations :
        Saved(i) /\ H > 0 =>
            /\ Offsets(i) = PositionsTypes(ScaledHeightTypes(canvasSize, pageSize), pdfHeight)
            /\ Offsets(i) = PositionsPart001(ImgHeightPart001(canvasSize, pageSize), pdfHeight)

\* C15 witness: a saved export of several pages whose height is no multiple of
\* the page height, drawn at the offsets the other implementation's formula gives
C15_Witness ==
    \E i \in Invocations :
        /\ Saved(i)
        /\ H % P # 0
        /\ Len(Offsets(i)) >= 2
        /\ Offsets(i) = OtherPositions

\* C15 as stated: the offsets of the two formulas differ on some page when H is
\* no multiple of P, and are equal when it is one.
C15_DifferOffMultiples ==
    \A i \in Invocations :
        Saved(i) /\ H > 0 =>
            IF H % P # 0 THEN Offsets(i) # OtherPositions
                         ELSE Offsets(i) = OtherPositions

----------------------------------------------------------------------------
(* Overlapping exports: two clicks on "Download PDF" of one mounted invoice *)

\* the inline style the invoice element is mounted with
MountedStyle ==
    [p \in StyleProps |-> IF p = "width" THEN "50%"
                          ELSE IF p = "maxWidth" THEN "600px" ELSE ""]

\* one mounted InvoicePrint of either component whose image fills two pages
InitOverlap ==
    /\ impl \in {"types", "part001"}
    /\ order_id = <<"a", "7">>
    /\ pageSize = [width |-> 2, height |-> 1]
    /\ canvasSize = [width |-> 1, height |-> 1]
    /\ style = MountedStyle
    /\ InitExportState
    /\ InitDb
    /\ InitApp

NextOverlap ==
    \/ \E i \in Invocations : ExportStep(i)
    \/ Close

SpecOverlap == InitOverlap /\ [][NextOverlap]_vars

----------------------------------------------------------------------------
(* Claims about overlapping exports *)

\* invocation i has started, has not ended, and is not the code now running
Suspended(i) == pc[i] \notin {"idle", "done"} /\ running # i

\* where an invocation waits: types.ts:69 (timer) and 72 (capture), part_001:45
AwaitPoints == IF impl = "types" THEN {"timer", "capture"} ELSE {"capture"}

\* a step in which nothing but invocation i runs: no other invocation moves and
\* the dialog is not closed
NoInterleave(i) ==
    /\ \A j \in Invocations \ {i} : pc'[j] = pc[j]
    /\ refCurrent' = refCurrent

\* C16: an invocation is suspended only at an await, the capture in part_001,
\* the 100 ms timer and then the capture in types.ts; while it is anywhere else
\* between its start and its end, no other handler takes a step.
C16_SuspendPoints ==
    /\ [](\A i \in Invocations : Suspended(i) => pc[i] \in AwaitPoints)
    /\ [][\A i \in Invocations :
             pc[i] \notin ({"idle", "done"} \cup AwaitPoints) => NoInterleave(i)]_vars

\* C16 witness: one invocation of types.ts runs its document calls while the
\* other, started during the first one's wait, is suspended at the timer
C16_Witness ==
    \E i, j \in Invocations :
        /\ i # j
        /\ impl = "types"
        /\ running = i
        /\ pc[i] \in {"draw0", "while", "addPage", "draw", "save"}
        /\ Suspended(j)
        /\ pc[j] = "timer"

\* C16 as stated: the capture is the only suspend point; from the start of an
\* invocation to its capture request, and from the capture result to save, no
\* other handler takes a step.
C16_OneSuspendPoint ==
    [][\A i \in Invocations :
          pc[i] \notin {"idle", "done", "capture"} => NoInterleave(i)]_vars

\* both invocations ended in save, and one of them started on the style the
\* other had prepared, that is, while the other was suspended
OverlappedAndSaved ==
    /\ \A i \in Invocations : Saved(i)
    /\ \E j \in Invocations : startStyle[j] # MountedStyle

\* C17: after two overlapping exports have both finished, the element has the
\* style it had before the first of them started.
C17_StyleAfterOverlap == OverlappedAndSaved => style = MountedStyle

----------------------------------------------------------------------------
(* Claims about the App component *)

\* the handler that ran last
LastEvent == IF history = <<>> THEN "none" ELSE history[Len(history)]

\* C18: in every App state showInvoice is true exactly when printOrder is
\* non-null, so the invoice dialog (rendered when showInvoice and printOrder)
\* is rendered exactly when an order to print is selected, and right after
\* handleCloseInvoice no order is selected.
C18_InvoiceIffPrintOrder ==
    /\ showInvoice <=> printOrder # NULL
    /\ LastEvent = "handleCloseInvoice" => ~showInvoice /\ printOrder = NULL

\* C18 witness: the dialog of an order was closed, and before that it was open
\* for the order chosen by handlePrint
C18_Witness ==
    /\ history = <<"handlePrint", "handleCloseInvoice">>
    /\ ~showInvoice
    /\ printOrder = NULL

\* C19: in every App state editOrder non-null implies showForm; right after the
\* "Tambah Order" click the form is shown with editOrder null, also when the
\* click follows an edit; right after handleCloseForm showForm is false and
\* editOrder is null.
C19_EditImpliesForm ==
    /\ editOrder # NULL => showForm
    /\ LastEvent = "TambahOrder" => showForm /\ editOrder = NULL
    /\ LastEvent = "handleCloseForm" => ~showForm /\ editOrder = NULL

\* C19 witness: "Tambah Order" was clicked right after handleEdit had opened the
\* form for an order, and the form is shown for a new order
C19_Witness ==
    /\ history = <<"handleEdit", "TambahOrder">>
    /\ showForm
    /\ editOrder = NULL

====
